---- MODULE Spec2Model ----
(***************************************************************************)
(* Personal Budget Tracker (src/app.py): the Flask handlers over the       *)
(* SQLite tables users, transactions and budgets, as a state machine.      *)
(*                                                                         *)
(* Text (emails, categories, dates, query parameters) is a sequence of     *)
(* one-character strings, so that strip(), lower(), slicing, int() and the *)
(* BINARY comparison of SQLite's BETWEEN are computed, not assumed.        *)
(* Money is an integer number of cents; form amounts are thousandths.      *)
(* A handler is one action per database statement it runs: Python's        *)
(* sqlite3 runs a SELECT in autocommit, and an INSERT/UPDATE/DELETE with   *)
(* the commit that follows it is one atomic write (SQLite admits one       *)
(* writer at a time), so other requests interleave between statements.     *)
(***************************************************************************)
EXTENDS Integers, Sequences, FiniteSets, TLC

VARIABLES
    users,          \* table users: set of [id, email, password_hash]
    next_uid,       \* sqlite_sequence of users (AUTOINCREMENT)
    transactions,   \* table transactions: set of rows
    next_txid,      \* sqlite_sequence of transactions (AUTOINCREMENT)
    budgets,        \* table budgets: set of [user_id, year, month, amount]
    session,        \* per client: the user id in its session cookie, 0 if none
    creator,        \* history: transaction id -> user whose add request made it
    pc,             \* per worker thread: the statement its handler is at
    loc,            \* per worker thread: its handler's locals
    out             \* the request answered by the last step and its response, if any

vars == <<users, next_uid, transactions, next_txid, budgets, session, creator, pc, loc, out>>

db == <<users, next_uid, transactions, next_txid, budgets, session, creator>>

(***************************************************************************)
(* Bounds of the model.                                                    *)
(***************************************************************************)
MaxTx == 2
MaxUsers == 2
\* Rows added while edits and deletes of one row interleave.
MaxTxEdit == 1

Threads == {"t1", "t2"}
Clients == {"c1", "c2"}

ReportThread == "t1"

ReportClient == "c1"

\* A request field that was not sent (text fields), a missing value (numbers).
None == <<"None">>

NoValue == [some |-> FALSE]

Some(v) == [some |-> TRUE, v |-> v]

NoArgs == [none |-> TRUE]

\* A form amount: not sent, not a number, "nan", or a decimal in thousandths.
NoAmount == [t |-> "absent"]

NotANumber == [t |-> "text"]

NaN == [t |-> "nan"]

Num(milli) == [t |-> "num", milli |-> milli]

\* A form kind that was not sent.
NoKind == ""

(***************************************************************************)
(* Text.                                                                   *)
(***************************************************************************)
Min(a, b) == IF a <= b THEN a ELSE b

Digits == <<"0", "1", "2", "3", "4", "5", "6", "7", "8", "9">>

DigitOf == [c \in {Digits[i] : i \in 1..10} |-> (CHOOSE i \in 1..10 : Digits[i] = c) - 1]

IsDigit(c) == c \in DOMAIN DigitOf

DigitVal(c) == DigitOf[c]

\* Byte values of the characters of the model (memcmp order of SQLite's BINARY
\* collation).
OrdOf ==
    [c \in DOMAIN DigitOf |-> 48 + DigitOf[c]] @@
    (" " :> 32) @@ ("+" :> 43) @@ ("-" :> 45) @@ ("A" :> 65) @@ ("F" :> 70) @@ ("G" :> 71) @@
    ("a" :> 97) @@ ("b" :> 98) @@ ("e" :> 101) @@ ("f" :> 102) @@ ("g" :> 103) @@ ("l" :> 108) @@
    ("n" :> 110) @@ ("r" :> 114) @@ ("x" :> 120) @@ ("z" :> 122)

Ord(c) == OrdOf[c]

\* str.lower() on one character.
LowerChar(c) ==
    CASE c = "A" -> "a"
      [] c = "F" -> "f"
      [] c = "G" -> "g"
      [] OTHER -> c

Lower(s) == [i \in 1..Len(s) |-> LowerChar(s[i])]

RECURSIVE LStrip(_)
LStrip(s) == IF s # <<>> /\ Head(s) = " " THEN LStrip(Tail(s)) ELSE s

RECURSIVE RStrip(_)
RStrip(s) == IF s # <<>> /\ s[Len(s)] = " " THEN RStrip(SubSeq(s, 1, Len(s) - 1)) ELSE s

\* str.strip()
Strip(s) == RStrip(LStrip(s))

\* Python s[i:j] for 0 <= i <= j.
Slice(s, i, j) == SubSeq(s, i + 1, Min(j, Len(s)))

\* a < b bytewise (SQLite TEXT comparison, BINARY collation).
RECURSIVE StrLTFrom(_, _, _)
StrLTFrom(a, b, i) ==
    IF i > Len(b) THEN FALSE
    ELSE IF i > Len(a) THEN TRUE
    ELSE IF a[i] # b[i] THEN Ord(a[i]) < Ord(b[i])
    ELSE StrLTFrom(a, b, i + 1)

StrLT(a, b) == StrLTFrom(a, b, 1)

StrLE(a, b) == a = b \/ StrLT(a, b)

\* x BETWEEN lo AND hi
Between(x, lo, hi) == StrLE(lo, x) /\ StrLE(x, hi)

RECURSIVE DigitsVal(_)
DigitsVal(s) == IF s = <<>> THEN 0 ELSE 10 * DigitsVal(SubSeq(s, 1, Len(s) - 1)) + DigitVal(s[Len(s)])

AllDigits(s) == s # <<>> /\ \A i \in 1..Len(s) : IsDigit(s[i])

\* Python int(str): surrounding whitespace and one sign are accepted; anything
\* else raises ValueError.
ParseInt(s) ==
    LET b == Strip(s)
        signed == b # <<>> /\ Head(b) \in {"-", "+"}
        d == IF signed THEN Tail(b) ELSE b
    IN  IF AllDigits(d)
        THEN [ok |-> TRUE, val |-> IF signed /\ Head(b) = "-" THEN 0 - DigitsVal(d) ELSE DigitsVal(d)]
        ELSE [ok |-> FALSE, val |-> 0]

\* The decimal digits of n >= 0, zero-padded to width w (date.isoformat fields).
RECURSIVE Fmt(_, _)
Fmt(n, w) == IF w = 0 THEN <<>> ELSE Fmt(n \div 10, w - 1) \o <<Digits[(n % 10) + 1]>>

(***************************************************************************)
(* Dates and filters.                                                      *)
(***************************************************************************)
\* date.today(), fixed for the length of a run.
TodayDate == [y |-> 2024, m |-> 3, d |-> 20]

IsoDate(y, m, d) == Fmt(y, 4) \o <<"-">> \o Fmt(m, 2) \o <<"-">> \o Fmt(d, 2)

TodayIso == IsoDate(TodayDate.y, TodayDate.m, TodayDate.d)

IsLeap(y) == y % 4 = 0 /\ (y % 100 # 0 \/ y % 400 = 0)

\* calendar.monthrange(year, month)[1]
DaysIn(y, m) ==
    IF m = 2 THEN (IF IsLeap(y) THEN 29 ELSE 28)
    ELSE IF m \in {4, 6, 9, 11} THEN 30 ELSE 31

\* month_bounds: monthrange raises IllegalMonthError (a ValueError) for a month
\* outside 1..12, date() raises ValueError for a year outside 1..9999.
month_bounds(y, m) ==
    IF m \in 1..12 /\ y \in 1..9999
    THEN [ok |-> TRUE, df |-> IsoDate(y, m, 1), dt |-> IsoDate(y, m, DaysIn(y, m))]
    ELSE [ok |-> FALSE, df |-> <<>>, dt |-> <<>>]

\* request.args.get(k) or ""
OrEmpty(v) == IF v = None THEN <<>> ELSE v

\* truthiness of request.args.get(k)
Has(v) == v # None /\ v # <<>>

\* try: y = int(args.get("year", today.year)); m = int(args.get("month", today.month))
\* except ValueError: y, m = today.year, today.month
RequestedMonth(q) ==
    LET py == IF q.year = None THEN [ok |-> TRUE, val |-> TodayDate.y] ELSE ParseInt(q.year)
        pm == IF q.month = None THEN [ok |-> TRUE, val |-> TodayDate.m] ELSE ParseInt(q.month)
    IN  IF py.ok /\ pm.ok THEN [y |-> py.val, m |-> pm.val]
        ELSE [y |-> TodayDate.y, m |-> TodayDate.m]

\* The date range of parse_filters and of current_filters_or_month (same code).
DateRange(q, ym) ==
    LET df == Strip(OrEmpty(q.date_from))
        dt == Strip(OrEmpty(q.date_to))
    IN  IF df = <<>> \/ dt = <<>> THEN month_bounds(ym.y, ym.m)
        ELSE [ok |-> TRUE, df |-> df, dt |-> dt]

parse_filters(q, ym) ==
    LET r == DateRange(q, ym)
    IN  [ok |-> r.ok, df |-> r.df, dt |-> r.dt, cat |-> Strip(OrEmpty(q.category))]

current_filters_or_month(q, ym) == DateRange(q, ym)

(***************************************************************************)
(* Queries.                                                                *)
(***************************************************************************)
\* WHERE user_id = ?
UserScopeAny(r, uid) == TRUE

UserScope(r, uid) == r.user_id = uid

\* add_filters_to_query / filter_params: the clause is added when the raw
\* request.args.get("category") is truthy, and binds that raw value.
IndexCategoryClause(r, q) == Has(q.category) => r.category = q.category

\* export_csv / export_xlsx: category = (args.get("category") or "").strip();
\* the clause is added when that is non-empty, and binds the stripped value.
ExportCategoryClause(r, q) ==
    LET c == Strip(OrEmpty(q.category)) IN c # <<>> => r.category = c

\* WHERE user_id = ? AND tx_date BETWEEN ? AND ?
RangeRows(T, uid, df, dt) ==
    {r \in T : UserScope(r, uid) /\ Between(r.tx_date, df, dt)}

IndexRows(T, uid, df, dt, q) == {r \in RangeRows(T, uid, df, dt) : IndexCategoryClause(r, q)}

ExportRows(T, uid, df, dt, q) == {r \in RangeRows(T, uid, df, dt) : ExportCategoryClause(r, q)}

RECURSIVE SumAmount(_)
SumAmount(S) == IF S = {} THEN 0 ELSE LET r == CHOOSE x \in S : TRUE IN r.amount + SumAmount(S \ {r})

\* COALESCE(SUM(CASE WHEN kind = k THEN amount END), 0)
KindSum(S, k) == SumAmount({r \in S : r.kind = k})

\* ORDER BY tx_date DESC, id DESC
ListingOrder(a, b) == StrLT(b.tx_date, a.tx_date) \/ (a.tx_date = b.tx_date /\ a.id >= b.id)

\* ORDER BY tx_date ASC, id ASC
ExportOrder(a, b) == StrLT(a.tx_date, b.tx_date) \/ (a.tx_date = b.tx_date /\ a.id <= b.id)

\* ORDER BY category COLLATE NOCASE
NoCaseOrder(a, b) == StrLE(Lower(a), Lower(b))

\* ORDER BY total DESC
TotalOrder(a, b) == a.total >= b.total

\* a may come before b under the ORDER BY clause named by order
OrderBy(order, a, b) ==
    CASE order = "tx_date DESC, id DESC" -> ListingOrder(a, b)
      [] order = "tx_date ASC, id ASC" -> ExportOrder(a, b)
      [] order = "category COLLATE NOCASE" -> NoCaseOrder(a, b)
      [] order = "total DESC" -> TotalOrder(a, b)

\* The orderings of the finite set S that respect the ORDER BY clause (rows
\* the clause does not tell apart come in any order).
OrderedSeqs(S, order) ==
    {p \in [1..Cardinality(S) -> S] :
        /\ \A i, j \in 1..Cardinality(S) : i # j => p[i] # p[j]
        /\ \A i, j \in 1..Cardinality(S) : i < j => OrderBy(order, p[i], p[j])}

\* GROUP BY category HAVING total > 0
HavingTotalAll(g) == TRUE

HavingTotal(g) == g.total > 0

CategoryGroups(S) ==
    {g \in {[category |-> c, total |-> KindSum({r \in S : r.category = c}, "expense")] :
                c \in {r.category : r \in S}} : HavingTotal(g)}

\* f"{amount:.2f}" for amount >= 0
RECURSIVE Dec(_)
Dec(n) == IF n < 10 THEN <<Digits[n + 1]>> ELSE Dec(n \div 10) \o <<Digits[(n % 10) + 1]>>

Fmt2(cents) == Dec(cents \div 100) \o <<".">> \o Fmt(cents % 100, 2)

\* One line of export_csv
CsvRow(r) == <<r.tx_date, r.kind, r.category, Fmt2(r.amount), r.note>>

\* One row of export_xlsx (amount as a number)
XlsxRow(r) == <<r.tx_date, r.kind, r.category, r.amount, r.note>>

\* int(min(100, (expense / budget) * 100)): truncation toward zero.  The
\* quotient is computed here in exact arithmetic; the amounts the requests of
\* this model submit are ones for which the double-precision computation
\* truncates to the same integer.
ProgressPctRounded(expense, budget) == Min(100, (200 * expense + budget) \div (2 * budget))

ProgressPct(expense, budget) == Min(100, (100 * expense) \div budget)

(***************************************************************************)
(* Requests and responses.                                                 *)
(***************************************************************************)
Idle == [req |-> [h |-> "none"]]

Redirect(to, args, flash) == [kind |-> "redirect", to |-> to, args |-> args, flash |-> flash]

Render(template, data) == [kind |-> "render", template |-> template, data |-> data]

\* An exception that leaves the handler (Flask answers 500).
Raise(exc) == [kind |-> "exception", exc |-> exc]

\* flask_login's answer to a protected route without a session.
Unauthorized == Redirect("login", NoArgs, <<"Please log in to access this page.", "message">>)

\* The handler returns: the worker thread is free for the next request.
Respond(t, req, r) ==
    /\ pc' = [pc EXCEPT ![t] = "idle"]
    /\ loc' = [loc EXCEPT ![t] = Idle]
    /\ out' = [req |-> req, resp |-> r]

\* The handler moves on to its next statement.
Goto(t, label, locals) ==
    /\ pc' = [pc EXCEPT ![t] = label]
    /\ loc' = [loc EXCEPT ![t] = locals]
    /\ out' = Idle

\* login_required: current_user is the user of the client's session.
current_user(c) == session[c]

(***************************************************************************)
(* Amounts.                                                                *)
(***************************************************************************)
\* round(x, 2) of a decimal given in thousandths, in cents (no request of this
\* model submits a tie, whose rounding depends on the binary representation).
Round2(milli) == (milli + 5) \div 10

\* try: amount = round(float(raw), 2); if amount < 0: raise ValueError
\* except (TypeError, ValueError): rejected.  float("nan") parses, and nan < 0
\* is False.  round(-0.001, 2) is -0.0, which is not < 0.
ParseAmount(raw) ==
    IF raw.t \in {"absent", "text"} THEN [ok |-> FALSE, nan |-> FALSE, cents |-> 0]
    ELSE IF raw.t = "nan" THEN [ok |-> TRUE, nan |-> TRUE, cents |-> 0]
    ELSE [ok |-> Round2(raw.milli) >= 0, nan |-> FALSE, cents |-> Round2(raw.milli)]

\* str(row["amount"]) of a stored amount
StrAmount(cents) == Num(10 * cents)

\* str(n)
Str(n) == IF n < 0 THEN <<"-">> \o Dec(0 - n) ELSE Dec(n)

\* redirect(url_for("index", year=tx_date[:4], month=int(tx_date[5:7])))
MonthRedirect(tx_date, flash) ==
    LET mo == ParseInt(Slice(tx_date, 5, 7))
    IN  IF mo.ok
        THEN Redirect("index", [year |-> Slice(tx_date, 0, 4), month |-> Str(mo.val)], flash)
        ELSE Raise("ValueError")

(***************************************************************************)
(* Auth routes.                                                            *)
(***************************************************************************)
\* generate_password_hash / check_password_hash (the salt is not modelled)
generate_password_hash(password) == <<"hash", password>>

check_password_hash(h, password) == h = <<"hash", password>>

NormalizeEmail(raw) == Lower(Strip(OrEmpty(raw)))

InFlight(label) == Cardinality({t \in Threads : pc[t] = label})

\* register, up to its SELECT
RegisterSelect(t, c, method, form) ==
    LET req == [h |-> "register", client |-> c, method |-> method, form |-> form]
        email == NormalizeEmail(form.email)
        password == OrEmpty(form.password)
    IN  /\ pc[t] = "idle"
        /\ next_uid + InFlight("register_insert") <= MaxUsers
        /\ UNCHANGED db
        /\ IF method = "GET" THEN Respond(t, req, Render("register.html", NoArgs))
           ELSE IF email = <<>> \/ password = <<>>
           THEN Respond(t, req, Redirect("register", NoArgs, <<"Email and password are required.", "danger">>))
           ELSE IF \E u \in users : u.email = email
           THEN Respond(t, req, Redirect("register", NoArgs, <<"A user with this email already exists.", "warning">>))
           ELSE Goto(t, "register_insert", [req |-> req, email |-> email, password |-> password])

\* register: the INSERT (email is UNIQUE), the commit, and login_user
RegisterInsert(t) ==
    /\ pc[t] = "register_insert"
    /\ IF \E u \in users : u.email = loc[t].email
       THEN /\ Respond(t, loc[t].req, Raise("IntegrityError"))
            /\ UNCHANGED db
       ELSE /\ users' = users \cup {[id |-> next_uid, email |-> loc[t].email,
                                     password_hash |-> generate_password_hash(loc[t].password)]}
            /\ next_uid' = next_uid + 1
            /\ session' = [session EXCEPT ![loc[t].req.client] = next_uid]
            /\ Respond(t, loc[t].req, Redirect("index", NoArgs, <<"Registered and logged in!", "success">>))
            /\ UNCHANGED <<transactions, next_txid, budgets, creator>>

Login(t, c, method, form) ==
    LET req == [h |-> "login", client |-> c, method |-> method, form |-> form]
        email == NormalizeEmail(form.email)
        password == OrEmpty(form.password)
        rows == {u \in users : u.email = email}
    IN  /\ pc[t] = "idle"
        /\ IF method = "GET"
           THEN Respond(t, req, Render("login.html", NoArgs)) /\ UNCHANGED db
           ELSE IF rows = {} \/ \A u \in rows : ~check_password_hash(u.password_hash, password)
           THEN /\ Respond(t, req, Redirect("login", NoArgs, <<"Invalid email or password.", "danger">>))
                /\ UNCHANGED db
           ELSE /\ session' = [session EXCEPT ![c] = (CHOOSE u \in rows : TRUE).id]
                /\ Respond(t, req, Redirect("index", NoArgs, <<"Logged in.", "success">>))
                /\ UNCHANGED <<users, next_uid, transactions, next_txid, budgets, creator>>

Logout(t, c) ==
    LET req == [h |-> "logout", client |-> c]
    IN  /\ pc[t] = "idle"
        /\ IF current_user(c) = 0
           THEN Respond(t, req, Unauthorized) /\ UNCHANGED db
           ELSE /\ session' = [session EXCEPT ![c] = 0]
                /\ Respond(t, req, Redirect("login", NoArgs, <<"Logged out.", "info">>))
                /\ UNCHANGED <<users, next_uid, transactions, next_txid, budgets, creator>>

(***************************************************************************)
(* Transaction routes.                                                     *)
(***************************************************************************)
Kinds == {"income", "expense"}

General == <<"G", "e", "n", "e", "r", "a", "l">>

\* (value or "").strip() or "General"
CategoryOf(raw) == IF Strip(OrEmpty(raw)) = <<>> THEN General ELSE Strip(OrEmpty(raw))

\* INTEGER PRIMARY KEY AUTOINCREMENT: a rowid is never handed out twice.
NewTxId == next_txid

RecordCreator(id, uid) ==
    [i \in (DOMAIN creator) \cup {id} |-> IF i = id THEN uid ELSE creator[i]]

\* add: one INSERT and its commit, then the redirect
Add(t, c, form) ==
    LET uid == current_user(c)
        req == [h |-> "add", client |-> c, user |-> uid, form |-> form]
        tx_date == IF Has(form.tx_date) THEN form.tx_date ELSE TodayIso
        category == CategoryOf(form.category)
        note == Strip(OrEmpty(form.note))
        amount == ParseAmount(form.amount)
        bad == Redirect("index", NoArgs, <<"Amount must be a non-negative number.", "danger">>)
        badkind == Redirect("index", NoArgs, <<"Invalid type selected.", "danger">>)
    IN  /\ pc[t] = "idle"
        /\ next_txid <= MaxTx
        /\ IF uid = 0 THEN Respond(t, req, Unauthorized) /\ UNCHANGED db
           ELSE IF ~amount.ok THEN Respond(t, req, bad) /\ UNCHANGED db
           ELSE IF form.kind \notin Kinds THEN Respond(t, req, badkind) /\ UNCHANGED db
           ELSE IF amount.nan
           THEN \* NaN is bound as NULL: NOT NULL constraint failed
                Respond(t, req, Raise("IntegrityError")) /\ UNCHANGED db
           ELSE /\ transactions' = transactions \cup
                        {[id |-> NewTxId, user_id |-> uid, tx_date |-> tx_date, kind |-> form.kind,
                          category |-> category, amount |-> amount.cents, note |-> note]}
                /\ next_txid' = next_txid + 1
                /\ creator' = RecordCreator(NewTxId, uid)
                /\ Respond(t, req, MonthRedirect(tx_date, <<"Transaction added!", "success">>))
                /\ UNCHANGED <<users, next_uid, budgets, session>>

\* The values edit writes: a field the form leaves out falls back to the row read.
EditValues(form, row) ==
    [tx_date |-> IF Has(form.tx_date) THEN form.tx_date ELSE row.tx_date,
     kind |-> IF form.kind # NoKind THEN form.kind ELSE row.kind,
     category |-> CategoryOf(IF Has(form.category) THEN form.category ELSE row.category),
     amount |-> ParseAmount(IF form.amount # NoAmount THEN form.amount ELSE StrAmount(row.amount)),
     note |-> Strip(IF Has(form.note) THEN form.note ELSE row.note)]

\* edit, up to its SELECT ... WHERE id = ? AND user_id = ?, and the validation
EditSelect(t, c, tx_id, method, form) ==
    LET uid == current_user(c)
        req == [h |-> "edit", client |-> c, user |-> uid, tx_id |-> tx_id, method |-> method, form |-> form]
        rows == {r \in transactions : r.id = tx_id /\ UserScope(r, uid)}
        row == CHOOSE r \in rows : TRUE
        new == EditValues(form, row)
    IN  /\ pc[t] = "idle"
        /\ UNCHANGED db
        /\ IF uid = 0 THEN Respond(t, req, Unauthorized)
           ELSE IF rows = {}
           THEN Respond(t, req, Redirect("index", NoArgs, <<"Not found.", "warning">>))
           ELSE IF method = "GET" THEN Respond(t, req, Render("edit.html", row))
           ELSE IF ~new.amount.ok
           THEN Respond(t, req, Redirect("edit", [tx_id |-> tx_id], <<"Amount must be a non-negative number.", "danger">>))
           ELSE IF new.kind \notin Kinds
           THEN Respond(t, req, Redirect("edit", [tx_id |-> tx_id], <<"Invalid type selected.", "danger">>))
           ELSE Goto(t, "edit_update", [req |-> req, row |-> row, new |-> new])

\* edit: UPDATE ... WHERE id = ? AND user_id = ?, the commit, then the redirect
EditUpdate(t) ==
    LET req == loc[t].req
        new == loc[t].new
        Hit(r) == r.id = req.tx_id /\ r.user_id = req.user
    IN  /\ pc[t] = "edit_update"
        /\ IF new.amount.nan
           THEN Respond(t, req, Raise("IntegrityError")) /\ UNCHANGED db
           ELSE /\ transactions' =
                      {IF Hit(r)
                       THEN [r EXCEPT !.tx_date = new.tx_date, !.kind = new.kind,
                                      !.category = new.category, !.amount = new.amount.cents,
                                      !.note = new.note]
                       ELSE r : r \in transactions}
                /\ Respond(t, req, MonthRedirect(new.tx_date, <<"Transaction updated.", "success">>))
                /\ UNCHANGED <<users, next_uid, next_txid, budgets, session, creator>>

\* delete: "not row or row['user_id'] != current_user.id"
DeleteOwnedAny(row, uid) == TRUE

DeleteOwned(row, uid) == row.user_id = uid

\* delete, up to its SELECT ... WHERE id = ?
DeleteSelect(t, c, tx_id) ==
    LET uid == current_user(c)
        req == [h |-> "delete", client |-> c, user |-> uid, tx_id |-> tx_id]
        rows == {r \in transactions : r.id = tx_id}
        row == CHOOSE r \in rows : TRUE
    IN  /\ pc[t] = "idle"
        /\ UNCHANGED db
        /\ IF uid = 0 THEN Respond(t, req, Unauthorized)
           ELSE IF rows = {} \/ ~DeleteOwned(row, uid)
           THEN Respond(t, req, Redirect("index", NoArgs, <<"Not found.", "warning">>))
           ELSE Goto(t, "delete_exec", [req |-> req, tx_date |-> row.tx_date])

\* delete: DELETE ... WHERE id = ?, the commit, then the redirect
DeleteExec(t) ==
    /\ pc[t] = "delete_exec"
    /\ transactions' = {r \in transactions : r.id # loc[t].req.tx_id}
    /\ Respond(t, loc[t].req, MonthRedirect(loc[t].tx_date, <<"Transaction removed.", "info">>))
    /\ UNCHANGED <<users, next_uid, next_txid, budgets, session, creator>>

(***************************************************************************)
(* Budget.                                                                 *)
(***************************************************************************)
SameKey(a, b) == a.user_id = b.user_id /\ a.year = b.year /\ a.month = b.month

\* INSERT ... ON CONFLICT(user_id, year, month) DO UPDATE SET amount = excluded.amount
UpsertAppend(B, row) == B \cup {row}

Upsert(B, row) == {b \in B : ~SameKey(b, row)} \cup {row}

\* set_budget, up to the end of its try block
SetBudgetParse(t, c, form) ==
    LET uid == current_user(c)
        req == [h |-> "set_budget", client |-> c, user |-> uid, form |-> form]
        py == IF form.year = None THEN [ok |-> TRUE, val |-> TodayDate.y] ELSE ParseInt(form.year)
        pm == IF form.month = None THEN [ok |-> TRUE, val |-> TodayDate.m] ELSE ParseInt(form.month)
        amount == ParseAmount(IF form.budget_amount = NoAmount THEN Num(0) ELSE form.budget_amount)
    IN  /\ pc[t] = "idle"
        /\ UNCHANGED db
        /\ IF uid = 0 THEN Respond(t, req, Unauthorized)
           ELSE IF ~py.ok \/ ~pm.ok \/ ~amount.ok
           THEN Respond(t, req, Redirect("index", NoArgs, <<"Budget must be a non-negative number.", "danger">>))
           ELSE Goto(t, "budget_upsert", [req |-> req, y |-> py.val, m |-> pm.val, amount |-> amount])

\* set_budget: the upsert and its commit
SetBudgetUpsert(t) ==
    LET l == loc[t]
    IN  /\ pc[t] = "budget_upsert"
        /\ IF l.amount.nan
           THEN Respond(t, l.req, Raise("IntegrityError")) /\ UNCHANGED db
           ELSE /\ budgets' = Upsert(budgets, [user_id |-> l.req.user, year |-> l.y, month |-> l.m,
                                               amount |-> l.amount.cents])
                /\ Respond(t, l.req, Redirect("index", [year |-> Str(l.y), month |-> Str(l.m)], <<"Budget saved.", "success">>))
                /\ UNCHANGED <<users, next_uid, transactions, next_txid, session, creator>>

(***************************************************************************)
(* Report and exports.                                                     *)
(***************************************************************************)
\* index, up to its first query (the category list of the range)
IndexCategories(t, c, q) ==
    LET uid == current_user(c)
        req == [h |-> "index", client |-> c, user |-> uid, q |-> q]
        ym == RequestedMonth(q)
        f == parse_filters(q, ym)
    IN  /\ pc[t] = "idle"
        /\ UNCHANGED db
        /\ IF uid = 0 THEN Respond(t, req, Unauthorized)
           ELSE IF ~f.ok THEN Respond(t, req, Raise("ValueError"))
           ELSE \E cats \in OrderedSeqs({r.category : r \in RangeRows(transactions, uid, f.df, f.dt)}, "category COLLATE NOCASE") :
                    Goto(t, "index_sums",
                         [req |-> req, y |-> ym.y, m |-> ym.m, date_from |-> f.df, date_to |-> f.dt,
                          category |-> f.cat, categories |-> cats])

\* index: the sums query
IndexSums(t) ==
    LET l == loc[t]
        rows == IndexRows(transactions, l.req.user, l.date_from, l.date_to, l.req.q)
        income == KindSum(rows, "income")
        expense == KindSum(rows, "expense")
    IN  /\ pc[t] = "index_sums"
        /\ UNCHANGED db
        /\ Goto(t, "index_txs",
                [req |-> l.req, y |-> l.y, m |-> l.m, date_from |-> l.date_from, date_to |-> l.date_to,
                 category |-> l.category, categories |-> l.categories,
                 income |-> income, expense |-> expense, balance |-> income - expense])

\* index: the listing query
IndexTxs(t) ==
    LET l == loc[t]
        rows == IndexRows(transactions, l.req.user, l.date_from, l.date_to, l.req.q)
    IN  /\ pc[t] = "index_txs"
        /\ UNCHANGED db
        /\ \E txs \in OrderedSeqs(rows, "tx_date DESC, id DESC") :
               Goto(t, "index_budget",
                    [req |-> l.req, y |-> l.y, m |-> l.m, date_from |-> l.date_from, date_to |-> l.date_to,
                     category |-> l.category, categories |-> l.categories,
                     income |-> l.income, expense |-> l.expense, balance |-> l.balance, txs |-> txs])

\* index: the budget of the requested month, remaining and progress
IndexBudget(t) ==
    LET l == loc[t]
        b == {x \in budgets : x.user_id = l.req.user /\ x.year = l.y /\ x.month = l.m}
        budget == IF b = {} THEN 0 ELSE (CHOOSE x \in b : TRUE).amount
    IN  /\ pc[t] = "index_budget"
        /\ UNCHANGED db
        /\ Goto(t, "index_cat",
                [req |-> l.req, y |-> l.y, m |-> l.m, date_from |-> l.date_from, date_to |-> l.date_to,
                 category |-> l.category, categories |-> l.categories,
                 income |-> l.income, expense |-> l.expense, balance |-> l.balance, txs |-> l.txs,
                 budget |-> budget,
                 remaining |-> IF budget > 0 THEN Some(budget - l.expense) ELSE NoValue,
                 progress_pct |-> IF budget > 0 THEN Some(ProgressPct(l.expense, budget)) ELSE NoValue])

\* index: the category totals, then the page
IndexCatTotals(t) ==
    LET l == loc[t]
        rows == IndexRows(transactions, l.req.user, l.date_from, l.date_to, l.req.q)
    IN  /\ pc[t] = "index_cat"
        /\ UNCHANGED db
        /\ \E pairs \in OrderedSeqs(CategoryGroups(rows), "total DESC") :
               Respond(t, l.req,
                   Render("index.html",
                       [year |-> l.y, month |-> l.m, date_from |-> l.date_from, date_to |-> l.date_to,
                        selected_category |-> l.category, categories |-> l.categories,
                        income |-> l.income, expense |-> l.expense, balance |-> l.balance,
                        txs |-> l.txs, budget |-> l.budget, remaining |-> l.remaining,
                        progress_pct |-> l.progress_pct, cat_pairs |-> pairs]))

\* The rows of an export, in file order
ExportSeq(uid, q) ==
    LET f == current_filters_or_month(q, RequestedMonth(q))
    IN  CHOOSE p \in OrderedSeqs(ExportRows(transactions, uid, f.df, f.dt, q), "tx_date ASC, id ASC") : TRUE

\* export_csv and export_xlsx: the same query; the file holds one line per row.
Export(t, c, q, h, mimetype) ==
    LET uid == current_user(c)
        req == [h |-> h, client |-> c, user |-> uid, q |-> q]
        f == current_filters_or_month(q, RequestedMonth(q))
        rows == ExportSeq(uid, q)
    IN  /\ pc[t] = "idle"
        /\ UNCHANGED db
        /\ IF uid = 0 THEN Respond(t, req, Unauthorized)
           ELSE IF ~f.ok THEN Respond(t, req, Raise("ValueError"))
           ELSE Respond(t, req, [kind |-> "file", mimetype |-> mimetype,
                                 ids |-> [i \in 1..Len(rows) |-> rows[i].id],
                                 rows |-> [i \in 1..Len(rows) |->
                                              IF mimetype = "text/csv" THEN CsvRow(rows[i])
                                              ELSE XlsxRow(rows[i])]])

export_csv(t, c, q) == Export(t, c, q, "export_csv", "text/csv")

export_xlsx(t, c, q) ==
    Export(t, c, q, "export_xlsx", "application/vnd.openxmlformats-officedocument.spreadsheetml.sheet")

(***************************************************************************)
(* Requests of the model.                                                  *)
(***************************************************************************)
D0315 == IsoDate(2024, 3, 15)

D0402 == IsoDate(2024, 4, 2)

NotADate == <<"x">>

CatF == <<"F">>

CatG == <<"G">>

AddForm(d, k, c, a) == [tx_date |-> d, kind |-> k, category |-> c, amount |-> a, note |-> None]

AddForms ==
    {AddForm(D0315, "expense", CatF, Num(504)),
     AddForm(None, "expense", CatG, Num(504)),
     AddForm(D0402, "income", <<" ">>, Num(504)),
     AddForm(NotADate, "expense", CatF, Num(504)),
     AddForm(D0315, "expense", CatF, Num(0 - 1)),
     AddForm(D0315, "expense", CatF, Num(0 - 5000)),
     AddForm(D0315, "expense", CatF, NotANumber),
     AddForm(D0315, "expense", CatF, NaN),
     AddForm(D0315, "expense", CatF, NoAmount),
     AddForm(D0315, "transfer", CatF, Num(504)),
     AddForm(D0315, NoKind, CatF, Num(504))}

\* The forms of the requests that edit and delete rows concurrently.
AddFormsEdit == {AddForm(D0315, "expense", CatF, Num(504))}

\* The forms of the requests that fill the report.
AddFormsReport ==
    {AddForm(D0315, "expense", CatF, Num(504)),
     AddForm(None, "expense", CatG, Num(504)),
     AddForm(D0402, "income", <<" ">>, Num(504)),
     AddForm(D0315, "expense", CatG, Num(0 - 1))}

\* The forms of the requests of the two users whose reports are compared.
AddFormsIsolation ==
    {AddForm(D0315, "expense", CatF, Num(504)),
     AddForm(None, "income", CatG, Num(1004))}

EditFormIsolation == AddForm(None, NoKind, CatG, NoAmount)

EditForms ==
    {AddForm(None, NoKind, None, Num(1004)),
     AddForm(None, NoKind, CatG, NoAmount),
     AddForm(None, "transfer", None, NoAmount),
     AddForm(None, NoKind, None, Num(0 - 5000))}

EditRequests == {<<"GET", AddForm(None, NoKind, None, NoAmount)>>} \cup {<<"POST", f>> : f \in EditForms}

TxIds == 1..MaxTx

TxIdsEdit == 1..(MaxTxEdit + 1)

Methods == {"GET", "POST"}

Query(y, m, df, dt, c) == [year |-> y, month |-> m, date_from |-> df, date_to |-> dt, category |-> c]

Queries ==
    {Query(None, None, None, None, None),
     Query(None, <<"1", "3">>, None, None, None),
     Query(None, None, IsoDate(2024, 1, 1), IsoDate(2024, 12, 31), <<" ", "F">>)}

\* The query strings the properties of the report range over.
AllQueries ==
    {Query(None, None, None, None, None),
     Query(<<"2", "0", "2", "4">>, <<"4">>, None, None, None),
     Query(<<"x">>, <<"4">>, None, None, CatF),
     Query(None, <<"1", "3">>, None, None, None),
     Query(None, None, IsoDate(2024, 1, 1), IsoDate(2024, 12, 31), None),
     Query(None, None, <<" ">> \o IsoDate(2024, 1, 1), IsoDate(2024, 12, 31), <<" ", "F">>),
     Query(None, None, None, None, <<" ">>),
     Query(None, None, <<"a">>, <<"z">>, CatG)}

\* parse_filters of each of these query strings.
AllFilters == {[q |-> q, f |-> parse_filters(q, RequestedMonth(q))] : q \in AllQueries}

BudgetForm(y, m, a) == [year |-> y, month |-> m, budget_amount |-> a]

BudgetForms ==
    {BudgetForm(None, None, Num(754)),
     BudgetForm(None, None, Num(0)),
     BudgetForm(<<"2", "0", "2", "4">>, <<"4">>, Num(754)),
     BudgetForm(None, <<"x">>, Num(754)),
     BudgetForm(None, None, Num(0 - 5000)),
     BudgetForm(None, None, NaN),
     BudgetForm(None, None, NoAmount)}

BudgetFormsReport == {BudgetForm(None, None, Num(754)), BudgetForm(None, None, Num(0))}

BudgetFormIsolation == BudgetForm(None, None, Num(754))

QueryIsolation == Query(None, None, IsoDate(2024, 1, 1), IsoDate(2024, 12, 31), None)

AuthForm(e, p) == [email |-> e, password |-> p]

EmailA == <<"a">>

EmailB == <<"b">>

Pw == <<"p">>

RegisterForms ==
    {AuthForm(EmailA, Pw), AuthForm(<<" ", "A">>, Pw), AuthForm(EmailB, Pw), AuthForm(None, Pw)}

LoginForms == {AuthForm(<<"A", " ">>, Pw), AuthForm(EmailA, <<"x">>), AuthForm(EmailB, Pw)}

(***************************************************************************)
(* Specifications.                                                         *)
(***************************************************************************)
InitRest ==
    /\ transactions = {}
    /\ next_txid = 1
    /\ budgets = {}
    /\ creator = <<>>
    /\ pc = [t \in Threads |-> "idle"]
    /\ loc = [t \in Threads |-> Idle]
    /\ out = Idle

\* The state after init_db() on a fresh instance folder.
Init ==
    /\ users = {}
    /\ next_uid = 1
    /\ session = [c \in Clients |-> 0]
    /\ InitRest

\* Two users have registered, each from its own client.
InitRegistered ==
    /\ users = {[id |-> 1, email |-> EmailA, password_hash |-> generate_password_hash(Pw)],
                [id |-> 2, email |-> EmailB, password_hash |-> generate_password_hash(Pw)]}
    /\ next_uid = 3
    /\ session = [c \in Clients |-> IF c = "c1" THEN 1 ELSE 2]
    /\ InitRest

NextAuth ==
    \E t \in Threads :
        \/ \E c \in Clients, m \in Methods, f \in RegisterForms : RegisterSelect(t, c, m, f)
        \/ RegisterInsert(t)
        \/ \E c \in Clients, m \in Methods, f \in LoginForms : Login(t, c, m, f)
        \/ \E c \in Clients : Logout(t, c)

\* add with every kind of form, and delete
NextAdd ==
    \E t \in Threads :
        \/ \E c \in Clients, f \in AddForms : Add(t, c, f)
        \/ \E c \in Clients, i \in TxIds : DeleteSelect(t, c, i)
        \/ DeleteExec(t)

\* add, edit and delete of the same rows by two users
NextEdit ==
    \E t \in Threads :
        \/ \E c \in Clients, f \in AddFormsEdit : next_txid <= MaxTxEdit /\ Add(t, c, f)
        \/ \E c \in Clients, i \in TxIdsEdit, e \in EditRequests : EditSelect(t, c, i, e[1], e[2])
        \/ EditUpdate(t)
        \/ \E c \in Clients, i \in TxIdsEdit : DeleteSelect(t, c, i)
        \/ DeleteExec(t)

NextBudget ==
    \E t \in Threads :
        \/ \E c \in Clients, f \in BudgetForms : SetBudgetParse(t, c, f)
        \/ SetBudgetUpsert(t)

\* The requests of one user that fill and read the report, served one at a time.
NextReport ==
    LET t == ReportThread
        c == ReportClient
    IN  \/ \E f \in AddFormsReport : Add(t, c, f)
        \/ \E i \in TxIds : DeleteSelect(t, c, i)
        \/ DeleteExec(t)
        \/ \E f \in BudgetFormsReport : SetBudgetParse(t, c, f)
        \/ SetBudgetUpsert(t)
        \/ \E q \in Queries : IndexCategories(t, c, q)
        \/ IndexSums(t)
        \/ IndexTxs(t)
        \/ IndexBudget(t)
        \/ IndexCatTotals(t)
        \/ \E q \in Queries : export_csv(t, c, q)
        \/ \E q \in Queries : export_xlsx(t, c, q)

\* Two users write rows and budgets and read the report, served one at a time.
NextIsolation ==
    LET t == ReportThread
    IN  \/ \E c \in Clients, f \in AddFormsIsolation : Add(t, c, f)
        \/ \E c \in Clients, i \in TxIds : EditSelect(t, c, i, "POST", EditFormIsolation)
        \/ EditUpdate(t)
        \/ \E c \in Clients, i \in TxIds : DeleteSelect(t, c, i)
        \/ DeleteExec(t)
        \/ \E c \in Clients : SetBudgetParse(t, c, BudgetFormIsolation)
        \/ SetBudgetUpsert(t)
        \/ \E c \in Clients : IndexCategories(t, c, QueryIsolation)
        \/ IndexSums(t)
        \/ IndexTxs(t)
        \/ IndexBudget(t)
        \/ IndexCatTotals(t)
        \/ \E c \in Clients : export_csv(t, c, QueryIsolation)
        \/ \E c \in Clients : export_xlsx(t, c, QueryIsolation)

Next == NextAuth \/ NextAdd \/ NextEdit \/ NextBudget \/ NextReport \/ NextIsolation

\* Every request on a fresh instance.  The specifications below are this one
\* restricted to the requests of one area, from a state two registrations reach.
Spec == Init /\ [][Next]_vars

SpecAuth == Init /\ [][NextAuth]_vars

SpecAdd == InitRegistered /\ [][NextAdd]_vars

SpecEdit == InitRegistered /\ [][NextEdit]_vars

SpecBudget == InitRegistered /\ [][NextBudget]_vars

SpecReport == InitRegistered /\ [][NextReport]_vars

SpecIsolation == InitRegistered /\ [][NextIsolation]_vars

(***************************************************************************)
(* Properties.                                                             *)
(***************************************************************************)
UserIds == {u.id : u \in users}

IsIndexPage == out.req.h = "index" /\ out.resp.kind = "render"

IsExportFile == out.req.h \in {"export_csv", "export_xlsx"} /\ out.resp.kind = "file"

\* The rows the add requests of user u created.
CreatedBy(u) == {r \in transactions : creator[r.id] = u}

\* C1: whatever the query string, the rows behind a user's listing, sums,
\* category breakdown, category list and exports are rows that user's own add
\* requests created, and every result is the one the user's own rows alone give.
C1_TenantIsolation ==
    /\ \A qf \in AllFilters : qf.f.ok =>
          \A u \in UserIds :
              LET own == CreatedBy(u)
                  q == qf.q
                  f == qf.f
                  shown == IndexRows(transactions, u, f.df, f.dt, q)
              IN  /\ \A r \in RangeRows(transactions, u, f.df, f.dt) : creator[r.id] = u
                  /\ shown = IndexRows(own, u, f.df, f.dt, q)
                  /\ ExportRows(transactions, u, f.df, f.dt, q) = ExportRows(own, u, f.df, f.dt, q)
                  /\ CategoryGroups(shown) = CategoryGroups(IndexRows(own, u, f.df, f.dt, q))
    /\ IsIndexPage =>
          /\ \A i \in 1..Len(out.resp.data.txs) : creator[out.resp.data.txs[i].id] = out.req.user
          /\ \A i \in 1..Len(out.resp.data.categories) :
                \E r \in CreatedBy(out.req.user) : r.category = out.resp.data.categories[i]
          /\ \A i \in 1..Len(out.resp.data.cat_pairs) :
                \E r \in CreatedBy(out.req.user) : r.category = out.resp.data.cat_pairs[i].category
          /\ out.resp.data.expense <= KindSum(CreatedBy(out.req.user), "expense")
          /\ out.resp.data.income <= KindSum(CreatedBy(out.req.user), "income")
    /\ IsExportFile => \A i \in 1..Len(out.resp.ids) : creator[out.resp.ids[i]] = out.req.user

\* A user is shown a non-empty listing while another user has a row in the
\* same date range.
C1_Witness ==
    /\ IsIndexPage
    /\ out.resp.data.txs # <<>>
    /\ \E r \in transactions :
          /\ creator[r.id] # out.req.user
          /\ Between(r.tx_date, out.resp.data.date_from, out.resp.data.date_to)

\* C4 (as claimed): for every query string, the rows of export_csv and of
\* export_xlsx are the rows of the index listing for the same query string,
\* field for field.
C4_ExportMatchesListing ==
    \A u \in UserIds, q \in AllQueries :
        LET ym == RequestedMonth(q)
            f == parse_filters(q, ym)
            g == current_filters_or_month(q, ym)
            listed == IndexRows(transactions, u, f.df, f.dt, q)
            exported == ExportRows(transactions, u, g.df, g.dt, q)
        IN  f.ok =>
              /\ g.ok
              /\ {XlsxRow(r) : r \in exported} = {XlsxRow(r) : r \in listed}
              /\ {CsvRow(r) : r \in exported} = {<<r.tx_date, r.kind, r.category, Fmt2(r.amount), r.note>> : r \in listed}
              /\ Cardinality(exported) = Cardinality(listed)

\* round(x) of Python for x = num / den >= 0: to the nearest integer, a tie to
\* the even one.
RoundHalfEven(num, den) ==
    LET fl == num \div den
        twice == 2 * (num % den)
    IN  IF twice < den THEN fl
        ELSE IF twice > den THEN fl + 1
        ELSE IF fl % 2 = 0 THEN fl ELSE fl + 1

\* The budget row of the page's user and requested month.
StoredBudget == {b \in budgets : b.user_id = out.req.user /\ b.year = out.resp.data.year
                                   /\ b.month = out.resp.data.month}

\* C5 (as claimed): progress = min(100, round(expense / budget * 100)) in
\* [0, 100] when the budget is > 0; progress and remaining are absent otherwise.
C5_ProgressRounded ==
    IsIndexPage =>
        LET d == out.resp.data
        IN  /\ d.budget > 0 =>
                /\ d.progress_pct = Some(Min(100, RoundHalfEven(100 * d.expense, d.budget)))
                /\ d.progress_pct.v \in 0..100
            /\ d.budget <= 0 => d.progress_pct = NoValue /\ d.remaining = NoValue

\* C5 (amended): progress is expense / budget * 100 cut to an integer, not
\* rounded: an integer in [0, 100] that never exceeds expense / budget * 100
\* and is 100 or within one of it; remaining = budget - expense.  The budget is
\* the stored one of the requested month, 0 when there is none, and then
\* progress and remaining are absent.
C5_ProgressTruncated ==
    IsIndexPage =>
        LET d == out.resp.data
        IN  /\ d.expense >= 0
            /\ IF StoredBudget = {} THEN d.budget = 0
               ELSE \A b \in StoredBudget : d.budget = b.amount
            /\ d.budget > 0 =>
                /\ d.progress_pct.some
                /\ d.progress_pct.v \in 0..100
                /\ d.progress_pct.v * d.budget <= 100 * d.expense
                /\ d.progress_pct.v = 100 \/ (d.progress_pct.v + 1) * d.budget >= 100 * d.expense
                /\ d.remaining = Some(d.budget - d.expense)
            /\ d.budget <= 0 => d.progress_pct = NoValue /\ d.remaining = NoValue

\* A page whose expense is two thirds of its budget: 66.67 percent.
C5_Witness ==
    /\ IsIndexPage
    /\ out.resp.data.budget > 0
    /\ out.resp.data.expense > 0
    /\ (100 * out.resp.data.expense) % out.resp.data.budget # 0
    /\ out.resp.data.progress_pct.v < 100

\* The expense sum of category c over the rows the page's filter selects.
PageRows ==
    {r \in transactions :
        /\ r.user_id = out.req.user
        /\ Between(r.tx_date, out.resp.data.date_from, out.resp.data.date_to)
        /\ Has(out.req.q.category) => r.category = out.req.q.category}

PageExpense(c) == SumAmount({r \in PageRows : r.category = c /\ r.kind = "expense"})

BreakdownContent ==
    LET p == out.resp.data.cat_pairs
    IN  /\ \A i \in 1..Len(p) : p[i].total > 0 /\ p[i].total = PageExpense(p[i].category)
        /\ \A i, j \in 1..Len(p) : i # j => p[i].category # p[j].category
        /\ {p[i].category : i \in 1..Len(p)} = {r.category : r \in {x \in PageRows : PageExpense(x.category) > 0}}

BudgetKeyUnique == \A a, b \in budgets : SameKey(a, b) => a = b

\* A set_budget request commits in this step.
BudgetSaved(t) == pc[t] = "budget_upsert" /\ pc'[t] = "idle" /\ ~loc[t].amount.nan

\* C2: the budgets table never holds two rows of one (user, year, month), also
\* when two requests for one key are under way together; a save leaves exactly
\* one row of its key, holding its amount (so a second identical save changes
\* nothing and a save for an existing key replaces the amount), and leaves the
\* rows of every other key as they were.
C2_BudgetUpsert ==
    /\ []BudgetKeyUnique
    /\ [][\A t \in Threads :
            BudgetSaved(t) =>
                LET key == [user_id |-> loc[t].req.user, year |-> loc[t].y, month |-> loc[t].m,
                            amount |-> loc[t].amount.cents]
                IN  /\ {b \in budgets' : SameKey(b, key)} = {key}
                    /\ {b \in budgets' : ~SameKey(b, key)} = {b \in budgets : ~SameKey(b, key)}
                    /\ out'.resp.kind = "redirect"]_vars

\* A save has just replaced the amount of its key while another request for
\* the same key is under way.
C2_Witness ==
    /\ out.req.h = "set_budget"
    /\ out.resp.kind = "redirect"
    /\ out.resp.flash[1] = "Budget saved."
    /\ \E b \in budgets, t \in Threads :
          /\ b.user_id = out.req.user
          /\ pc[t] = "budget_upsert"
          /\ SameKey(b, [user_id |-> loc[t].req.user, year |-> loc[t].y, month |-> loc[t].m])
          /\ ~loc[t].amount.nan
          /\ loc[t].amount.cents # b.amount

\* The amount of an add form does not parse as a number, or is negative, or
\* its kind is none of income and expense.
AddMustBeRejected(form) ==
    \/ form.amount.t \in {"absent", "text"}
    \/ form.amount.t = "num" /\ form.amount.milli < 0
    \/ form.kind \notin {"income", "expense"}

\* C3 (as claimed): such an add request writes no row, leaves every stored
\* row as it is, and ends in a redirect with an error message.
C3_AddRejection ==
    [][(out'.req.h = "add" /\ out'.req.user # 0 /\ AddMustBeRejected(out'.req.form)) =>
            /\ transactions' = transactions
            /\ out'.resp.kind = "redirect"
            /\ out'.resp.flash[2] = "danger"]_vars

\* C10 (as claimed): a request that commits a change to the transactions table
\* ends in a redirect to the index view, of the year of the row it wrote.
C10_WriteThenRedirect ==
    [][transactions' # transactions =>
            /\ out'.resp.kind = "redirect"
            /\ out'.resp.to = "index"
            /\ \A r \in transactions' \ transactions : out'.resp.args.year = Slice(r.tx_date, 0, 4)]_vars

\* A request about a row that does not exist or is another user's is answered
\* at once with the "Not found." redirect and changes no row.
NotFoundAnswer ==
    (/\ pc' = pc
     /\ out'.req.h \in {"edit", "delete"}
     /\ out'.req.user # 0
     /\ ~\E r \in transactions : r.id = out'.req.tx_id /\ creator[r.id] = out'.req.user)
    => /\ transactions' = transactions
       /\ out'.resp = Redirect("index", NoArgs, <<"Not found.", "warning">>)

\* A row is changed or removed only by an edit or delete request of its owner
\* for that row.
OnlyOwnerWrites ==
    \A r \in transactions :
        r \notin transactions' =>
            \E t \in Threads :
                /\ pc[t] \in {"edit_update", "delete_exec"}
                /\ pc'[t] = "idle"
                /\ loc[t].req.user = creator[r.id]
                /\ loc[t].req.tx_id = r.id

\* C7: ownership of edit and delete, in every interleaving.
C7_Ownership == [][NotFoundAnswer /\ OnlyOwnerWrites]_vars

\* A user's delete of another user's row has been answered "Not found.".
C7_Witness ==
    /\ out.req.h = "delete"
    /\ out.resp.kind = "redirect"
    /\ out.resp.flash[1] = "Not found."
    /\ \E r \in transactions : r.id = out.req.tx_id /\ creator[r.id] # out.req.user

\* C9 (as claimed): when an edit commits, every field its form left out keeps
\* the value the row holds at that moment (no committed change is overwritten
\* by a fallback value), and a row that was deleted is not written again.
C9_NoLostUpdate ==
    [][\A t \in Threads :
            (pc[t] = "edit_update" /\ pc'[t] = "idle") =>
                /\ {r.id : r \in transactions'} = {r.id : r \in transactions}
                /\ \A r \in transactions, w \in transactions' :
                      (r.id = loc[t].req.tx_id /\ w.id = r.id) =>
                          /\ ~Has(loc[t].req.form.tx_date) => w.tx_date = r.tx_date
                          /\ loc[t].req.form.kind = NoKind => w.kind = r.kind
                          /\ ~Has(loc[t].req.form.category) => w.category = r.category
                          /\ loc[t].req.form.amount = NoAmount => w.amount = r.amount
                          /\ ~Has(loc[t].req.form.note) => w.note = r.note]_vars

NoDuplicateEmail == \A a, b \in users : a.email = b.email => a = b

\* C8 (as claimed): a register request for the email of an existing user
\* creates no user, establishes no session and ends in a redirect with a
\* message, also when two such requests run together; no two users share an
\* email.
C8_DuplicateRegistration ==
    /\ []NoDuplicateEmail
    /\ [][(/\ out'.req.h = "register"
           /\ out'.req.method = "POST"
           /\ \E u \in users : u.email = Lower(Strip(OrEmpty(out'.req.form.email))))
          => /\ users' = users
             /\ session' = session
             /\ out'.resp.kind = "redirect"
             /\ out'.resp.flash[2] \in {"warning", "danger"}]_vars

====
